---- MODULE Spec2Model ----
(***************************************************************************)
(* mydb: an append-only record log with an in-memory index (keydir).       *)
(* The model is byte-exact: the log is a sequence of bytes, records are    *)
(* encoded and decoded as src/lib.rs does, and the index is rebuilt by the *)
(* scan of KeyDir::load.                                                   *)
(***************************************************************************)
EXTENDS Integers, Sequences, FiniteSets, TLC

(***************************************************************************)
(* Numbers.  u32 and usize values are kept as a pair of base-2^16 digits   *)
(* [hi, lo], so that every u32 (up to 2^32 - 1) and the usize sums the     *)
(* code forms from them are represented exactly.                           *)
(***************************************************************************)
Base == 2 ^ 16

W(n) == [hi |-> n \div Base, lo |-> n % Base]

WAdd(a, b) ==
    LET lo == a.lo + b.lo
    IN  [hi |-> a.hi + b.hi + (lo \div Base), lo |-> lo % Base]

WLt(a, b) == a.hi < b.hi \/ (a.hi = b.hi /\ a.lo < b.lo)

WLe(a, b) == a = b \/ WLt(a, b)

\* u32::MAX
U32_MAX == [hi |-> Base - 1, lo |-> Base - 1]

\* u32::try_from(n).is_ok()
FitsU32(a) == WLe(a, U32_MAX)

\* const HEADER_SIZE: usize = 12
HEADER_SIZE == 12

(***************************************************************************)
(* Strings.  A String is the sequence of its UTF-8 bytes.  Oversized       *)
(* stands for a string of 2^32 bytes, one more than the length fields can  *)
(* hold; its content is never read, because KeyValue::new rejects it       *)
(* before any byte of it is used.                                          *)
(***************************************************************************)
Oversized == << -1 >>

\* str::len(): the byte length, as a usize
len(s) == IF s = Oversized THEN [hi |-> Base, lo |-> 0] ELSE W(Len(s))

\* a continuation byte 10xxxxxx
IsCont(b) == b \in 128..191

\* std::str::from_utf8(bytes).is_ok(), from byte i on
RECURSIVE Utf8From(_, _)
Utf8From(b, i) ==
    LET n == Len(b)
        c(j) == j <= n /\ IsCont(b[j])
        in(j, lo, hi) == j <= n /\ b[j] \in lo..hi
    IN  IF i > n THEN TRUE
        ELSE IF b[i] < 128 THEN Utf8From(b, i + 1)
        ELSE IF b[i] \in 194..223 THEN c(i + 1) /\ Utf8From(b, i + 2)
        ELSE IF b[i] = 224 THEN in(i + 1, 160, 191) /\ c(i + 2) /\ Utf8From(b, i + 3)
        ELSE IF b[i] \in (225..236) \cup (238..239)
             THEN c(i + 1) /\ c(i + 2) /\ Utf8From(b, i + 3)
        ELSE IF b[i] = 237 THEN in(i + 1, 128, 159) /\ c(i + 2) /\ Utf8From(b, i + 3)
        ELSE IF b[i] = 240
             THEN in(i + 1, 144, 191) /\ c(i + 2) /\ c(i + 3) /\ Utf8From(b, i + 4)
        ELSE IF b[i] \in 241..243
             THEN c(i + 1) /\ c(i + 2) /\ c(i + 3) /\ Utf8From(b, i + 4)
        ELSE IF b[i] = 244
             THEN in(i + 1, 128, 143) /\ c(i + 2) /\ c(i + 3) /\ Utf8From(b, i + 4)
        ELSE FALSE

from_utf8_ok(bytes) == Utf8From(bytes, 1)

(***************************************************************************)
(* Results.  Ok(v) and Err(e) of Result<T>; a panic (a failed unwrap) is   *)
(* its own outcome.                                                        *)
(***************************************************************************)
Ok(v) == [tag |-> "Ok", val |-> v]

Err(e) == [tag |-> e, val |-> <<>>]

Panic == [tag |-> "Panic", val |-> <<>>]

\* Option<T>: None is the empty sequence, Some(v) the one-element sequence
None == <<>>

Some(v) == <<v>>

(***************************************************************************)
(* Record codec                                                            *)
(***************************************************************************)
\* (faulty variant) the four bytes most significant first
to_be_bytes(a) == <<a.hi \div 256, a.hi % 256, a.lo \div 256, a.lo % 256>>

\* u32::to_le_bytes
to_le_bytes(a) == <<a.lo % 256, a.lo \div 256, a.hi % 256, a.hi \div 256>>

\* u32::from_le_bytes, of a 4-byte sequence
from_le_bytes(b) == [hi |-> b[3] + 256 * b[4], lo |-> b[1] + 256 * b[2]]

Header_encode(h) ==
    to_le_bytes(h.timestamp) \o to_le_bytes(h.key_size) \o to_le_bytes(h.value_size)

Header_decode(buf) ==
    IF Len(buf) # HEADER_SIZE
    THEN Err("DecodeError")
    ELSE Ok([timestamp  |-> from_le_bytes(SubSeq(buf, 1, 4)),
             key_size   |-> from_le_bytes(SubSeq(buf, 5, 8)),
             value_size |-> from_le_bytes(SubSeq(buf, 9, 12))])

\* (faulty variant) the value is measured before the key
KeyValue_new_value_first(timestamp, key, value) ==
    IF WLt(U32_MAX, len(value)) THEN Err("ValueTooLong")
    ELSE IF WLt(U32_MAX, len(key)) THEN Err("KeyTooLong")
    ELSE Ok([timestamp |-> timestamp, key |-> key, value |-> value])

KeyValue_new(timestamp, key, value) ==
    IF WLt(U32_MAX, len(key)) THEN Err("KeyTooLong")
    ELSE IF WLt(U32_MAX, len(value)) THEN Err("ValueTooLong")
    ELSE Ok([timestamp |-> timestamp, key |-> key, value |-> value])

\* the lengths fit in u32 when the record comes from KeyValue::new
KeyValue_encode(kv) ==
    Header_encode([timestamp  |-> kv.timestamp,
                   key_size   |-> len(kv.key),
                   value_size |-> len(kv.value)])
        \o kv.key \o kv.value

\* (faulty variant) a buffer longer than its record is accepted: only a buffer
\* too short for the sizes of its header is rejected
KeyValue_decode_prefix(buf) ==
    IF Len(buf) < HEADER_SIZE
    THEN Err("DecodeError")
    ELSE LET h          == Header_decode(SubSeq(buf, 1, HEADER_SIZE)).val
             total_size == WAdd(W(HEADER_SIZE), WAdd(h.key_size, h.value_size))
         IN  IF WLt(W(Len(buf)), total_size)
             THEN Err("DecodeError")
             ELSE LET offset_key   == HEADER_SIZE
                      offset_value == offset_key + h.key_size.lo
                      key   == SubSeq(buf, offset_key + 1, offset_value)
                      value == SubSeq(buf, offset_value + 1,
                                      offset_value + h.value_size.lo)
                  IN  IF ~from_utf8_ok(key) THEN Err("DecodeError")
                      ELSE IF ~from_utf8_ok(value) THEN Err("DecodeError")
                      ELSE Ok([timestamp |-> h.timestamp, key |-> key,
                               value |-> value])

KeyValue_decode(buf) ==
    IF Len(buf) < HEADER_SIZE
    THEN Err("DecodeError")
    ELSE LET h          == Header_decode(SubSeq(buf, 1, HEADER_SIZE)).val
             total_size == WAdd(W(HEADER_SIZE), WAdd(h.key_size, h.value_size))
         IN  IF W(Len(buf)) # total_size
             THEN Err("DecodeError")
             ELSE LET offset_key   == HEADER_SIZE
                      offset_value == offset_key + h.key_size.lo
                      key   == SubSeq(buf, offset_key + 1, offset_value)
                      value == SubSeq(buf, offset_value + 1,
                                      offset_value + h.value_size.lo)
                  IN  IF ~from_utf8_ok(key) THEN Err("DecodeError")
                      ELSE IF ~from_utf8_ok(value) THEN Err("DecodeError")
                      ELSE Ok([timestamp |-> h.timestamp, key |-> key,
                               value |-> value])

(***************************************************************************)
(* The log file.  `bytes` is the content of the file, a position is a      *)
(* usize.  The model's files stay far below 2^16 bytes, so a position      *)
(* with hi # 0 lies beyond the end of every file.                          *)
(***************************************************************************)
\* bytes left between position pos and the end of the file
Available(bytes, pos) ==
    IF pos.hi = 0 /\ pos.lo <= Len(bytes) THEN Len(bytes) - pos.lo ELSE 0

\* the file position after a read at pos that ran into the end of the file
EofCursor(bytes, pos) == IF WLe(pos, W(Len(bytes))) THEN W(Len(bytes)) ELSE pos

\* (faulty variant) a file opened without append(true) and written from its start:
\* the bytes replace the head of the file
write_all_at_start(bytes, cursor, buf) ==
    [bytes  |-> buf \o SubSeq(bytes, Len(buf) + 1, Len(bytes)),
     cursor |-> W(Len(buf))]

\* (faulty variant) a file opened without append(true): the bytes land at the
\* cursor, over what the file holds there
write_all_at_cursor(bytes, cursor, buf) ==
    LET at == IF WLe(cursor, W(Len(bytes))) THEN cursor.lo ELSE Len(bytes)
    IN  [bytes  |-> SubSeq(bytes, 1, at) \o buf
                        \o SubSeq(bytes, at + Len(buf) + 1, Len(bytes)),
         cursor |-> W(at + Len(buf))]

\* Write::write_all on a file opened with append(true): the bytes land at
\* the end of the file wherever the cursor is, and the cursor follows
write_all(bytes, cursor, buf) ==
    [bytes |-> bytes \o buf, cursor |-> W(Len(bytes) + Len(buf))]

(***************************************************************************)
(* Index (keydir): a function from keys to entries                         *)
(***************************************************************************)
EmptyKeyDir == <<>>

\* (faulty variant) the entry of a key already present is kept
keydir_insert_keep(keydir, key, entry) ==
    [k \in DOMAIN keydir \cup {key} |->
        IF k \in DOMAIN keydir THEN keydir[k] ELSE entry]

\* HashMap::insert: insert or overwrite
keydir_insert(keydir, key, entry) ==
    [k \in DOMAIN keydir \cup {key} |-> IF k = key THEN entry ELSE keydir[k]]

\* KeyDirEntry of the record whose header starts at `offset`
KeyDirEntry(timestamp, size, offset) ==
    [timestamp |-> timestamp, size |-> size, offset |-> offset]

\* (faulty variant) the record length without its header
record_size_payload(h) == WAdd(h.key_size, h.value_size)

\* HEADER_SIZE + key_size + value_size, as a usize
record_size(h) == WAdd(W(HEADER_SIZE), WAdd(h.key_size, h.value_size))

\* The scan loop of KeyDir::load, at stream position pos with the map built
\* so far.  Ok carries the map and the position the file is left at.
RECURSIVE load_loop(_, _, _)
load_loop(bytes, pos, keydir) ==
    LET avail == Available(bytes, pos)
    IN  IF avail < HEADER_SIZE
        THEN \* read_exact of the header: UnexpectedEof, break
             Ok([keydir |-> keydir, cursor |-> EofCursor(bytes, pos)])
        ELSE LET offset     == pos
                 h          == Header_decode(
                                   SubSeq(bytes, pos.lo + 1, pos.lo + HEADER_SIZE)).val
                 key_size   == h.key_size
                 value_size == h.value_size
             IN  IF WLt(W(avail - HEADER_SIZE), key_size)
                 THEN Err("IoError")            \* read_exact of the key
                 ELSE LET key == SubSeq(bytes, pos.lo + HEADER_SIZE + 1,
                                        pos.lo + HEADER_SIZE + key_size.lo)
                          \* seek(SeekFrom::Current(value_size)): may pass the end
                          next == WAdd(WAdd(pos, W(HEADER_SIZE)),
                                       WAdd(key_size, value_size))
                          size == record_size(h)
                      IN  IF ~from_utf8_ok(key) THEN Err("DecodeError")
                          ELSE IF ~FitsU32(size) THEN Panic   \* try_into().unwrap()
                          ELSE load_loop(bytes, next,
                                   keydir_insert(keydir, key,
                                       KeyDirEntry(h.timestamp, size, offset)))

\* KeyDir::load on a stream positioned at its start
KeyDir_load(bytes) == load_loop(bytes, W(0), EmptyKeyDir)

(***************************************************************************)
(* Storage engine.  self = [keydir, offset]; the file is (bytes, cursor).  *)
(***************************************************************************)
\* MyDB::new and MyDB::new_from_file after the file is open: the index is
\* loaded and the tracked next-write offset starts at 0
MyDB_open(bytes) ==
    LET r == KeyDir_load(bytes)
    IN  IF r.tag = "Ok"
        THEN Ok([keydir |-> r.val.keydir, offset |-> W(0), cursor |-> r.val.cursor])
        ELSE r

\* (faulty variant) a record that does not decode is reported as an absent key
get_decode_lenient(kv) ==
    LET r == KeyValue_decode(kv)
    IN  IF r.tag = "Ok" THEN Ok(Some(r.val.value)) ELSE Ok(None)

\* get, after the record's bytes are read: decode and return the value
get_decode(kv) ==
    LET r == KeyValue_decode(kv)
    IN  IF r.tag = "Ok" THEN Ok(Some(r.val.value)) ELSE Err(r.tag)

\* MyDB::get: the result and where the file cursor is left
MyDB_get(bytes, cursor, keydir, key) ==
    IF key \notin DOMAIN keydir
    THEN [res |-> Ok(None), cursor |-> cursor]
    ELSE LET entry == keydir[key]
             avail == Available(bytes, entry.offset)
         IN  IF WLt(W(avail), entry.size)
             THEN \* read_exact: UnexpectedEof
                  [res |-> Err("IoError"), cursor |-> EofCursor(bytes, entry.offset)]
             ELSE [res    |-> get_decode(SubSeq(bytes, entry.offset.lo + 1,
                                                entry.offset.lo + entry.size.lo)),
                   cursor |-> WAdd(entry.offset, entry.size)]

\* What the environment does to one set call: nothing ("none"), write_all
\* fails after n bytes reached the file ("write"), sync_all fails ("sync").
NoFault == [kind |-> "none", n |-> 0]

WriteFault(n) == [kind |-> "write", n |-> n]

SyncFault == [kind |-> "sync", n |-> 0]

\* (faulty variant) the index and the offset are updated before the write, and not
\* undone when the write or the sync fails
MyDB_set_index_first(bytes, cursor, keydir, offset, key, value, timestamp, fault) ==
    LET same == [bytes |-> bytes, cursor |-> cursor, keydir |-> keydir,
                 offset |-> offset]
        new  == KeyValue_new(timestamp, key, value)
    IN  IF new.tag # "Ok" THEN [res |-> new] @@ same
        ELSE
        LET kv      == KeyValue_encode(new.val)
            size    == W(Len(kv))
            n       == IF fault.kind = "write" THEN fault.n ELSE Len(kv)
            f       == write_all(bytes, cursor, SubSeq(kv, 1, n))
            updated == [keydir |-> keydir_insert(keydir, key,
                                      KeyDirEntry(timestamp, size, offset)),
                        offset |-> WAdd(offset, size)]
        IN  [res |-> IF fault.kind = "none" THEN Ok(<<>>) ELSE Err("IoError")]
                @@ f @@ updated

\* MyDB::set with the timestamp now_timestamp() returned: the result, the
\* file and the engine's fields after the call
MyDB_set(bytes, cursor, keydir, offset, key, value, timestamp, fault) ==
    LET same == [bytes |-> bytes, cursor |-> cursor, keydir |-> keydir,
                 offset |-> offset]
        new  == KeyValue_new(timestamp, key, value)
    IN  IF new.tag # "Ok" THEN [res |-> new] @@ same
        ELSE
        LET kv == KeyValue_encode(new.val)
        IN  IF fault.kind = "write"
            THEN [res |-> Err("IoError")]
                 @@ write_all(bytes, cursor, SubSeq(kv, 1, fault.n)) @@ same
            ELSE
            LET f == write_all(bytes, cursor, kv)
            IN  IF fault.kind = "sync"
                THEN [res |-> Err("IoError")] @@ f @@ same
                ELSE
                LET size == W(Len(kv))
                IN  IF ~FitsU32(size) THEN [res |-> Panic] @@ f @@ same
                    ELSE [res    |-> Ok(<<>>),
                          bytes  |-> f.bytes,
                          cursor |-> f.cursor,
                          keydir |-> keydir_insert(keydir, key,
                                        KeyDirEntry(timestamp, size, offset)),
                          offset |-> WAdd(offset, size)]

(***************************************************************************)
(* Bounds and inputs                                                       *)
(***************************************************************************)
\* set calls that reach the write, over the life of the file
MaxSets == 2

\* opens of the file (MyDB::new or MyDB::new_from_file)
MaxOpens == 3

\* set calls that fail at the file or are cut short by a crash
MaxFaults == 1

\* "" and "a"
Keys == {<<>>, <<97>>}

\* "" and "x"
Values == {<<>>, <<120>>}

\* set calls with a key, a value, or both, of 2^32 bytes
TooLongCalls == {<<Oversized, <<>>>>, <<<<>>, Oversized>>, <<Oversized, Oversized>>}

\* the keys get is called with: Keys and "\0", which no set call writes
GetKeys == Keys \cup {<<0>>}

\* the wall clock at the first set: 1 700 000 000 s after the epoch
Epoch == [hi |-> 25939, lo |-> 61696]

(***************************************************************************)
(* State                                                                   *)
(***************************************************************************)
VARIABLES
    disk,      \* the bytes of the log file
    cursor,    \* the position of the open file handle
    db,        \* "closed": no engine; "open": an engine owns the file
    keydir,    \* MyDB.keydir
    offset,    \* MyDB.offset, the tracked next-write offset
    clock,     \* seconds elapsed since Epoch; one set call per second
    opens,     \* opens made so far
    faults,    \* set calls that failed at the file or were cut short
    last,      \* the last call and what it returned
    hist,      \* the set calls that returned Ok, in order
    touched,   \* the keys passed to any set call
    openLen,   \* the length of the log when the engine was opened
    openFaults, \* the value of faults when the engine was opened
    inflight   \* the set call a crash interrupted, if any

vars == <<disk, cursor, db, keydir, offset, clock, opens, faults, last, hist, touched,
          openLen, openFaults, inflight>>

engine == <<db, keydir, offset>>

ghost == <<hist, touched, openLen, openFaults, inflight>>

\* now_timestamp(): whole seconds since the epoch, as u32
now_timestamp == WAdd(Epoch, W(clock))

Call(op, key, res) == [op |-> op, key |-> key, res |-> res]

Init ==
    /\ disk = <<>>
    /\ cursor = W(0)
    /\ db = "closed"
    /\ keydir = EmptyKeyDir
    /\ offset = W(0)
    /\ clock = 0
    /\ opens = 0
    /\ faults = 0
    /\ last = Call("none", <<>>, Ok(<<>>))
    /\ hist = <<>>
    /\ touched = {}
    /\ openLen = 0
    /\ openFaults = 0
    /\ inflight = <<>>

(***************************************************************************)
(* Operations                                                              *)
(***************************************************************************)
\* MyDB::new(path) and MyDB::new_from_file(file) on the log file: both load
\* the index and start with offset 0
Open(op) ==
    /\ db = "closed"
    /\ opens < MaxOpens
    /\ opens' = opens + 1
    /\ LET r == MyDB_open(disk)
       IN  /\ last' = Call(op, <<>>, [tag |-> r.tag, val |-> <<>>])
           /\ IF r.tag = "Ok"
              THEN /\ db' = "open"
                   /\ keydir' = r.val.keydir
                   /\ offset' = r.val.offset
                   /\ cursor' = r.val.cursor
              ELSE /\ db' = "closed"
                   /\ keydir' = EmptyKeyDir
                   /\ offset' = W(0)
                   /\ cursor' = W(0)
    /\ openLen' = Len(disk)
    /\ openFaults' = faults
    /\ UNCHANGED <<disk, clock, faults, hist, touched, inflight>>

New == Open("open")

NewFromFile == Open("open")

Get(key) ==
    /\ db = "open"
    /\ LET r == MyDB_get(disk, cursor, keydir, key)
       IN  /\ last' = Call("get", key, r.res)
           /\ cursor' = r.cursor
    /\ UNCHANGED <<disk, engine, clock, opens, faults, ghost>>

\* one set call under `fault`; a panic ends the process
CallSet(key, value, fault) ==
    LET r == MyDB_set(disk, cursor, keydir, offset, key, value, now_timestamp, fault)
    IN  /\ last' = Call("set", key, r.res)
        /\ disk' = r.bytes
        /\ IF r.res.tag = "Panic"
           THEN /\ db' = "closed"
                /\ keydir' = EmptyKeyDir
                /\ offset' = W(0)
                /\ cursor' = W(0)
           ELSE /\ db' = db
                /\ keydir' = r.keydir
                /\ offset' = r.offset
                /\ cursor' = r.cursor
        /\ hist' = IF r.res.tag = "Ok"
                   THEN Append(hist, [key |-> key, value |-> value,
                                      timestamp |-> now_timestamp])
                   ELSE hist
        /\ touched' = IF r.res.tag \in {"KeyTooLong", "ValueTooLong"}
                      THEN touched
                      ELSE touched \cup {key}
        /\ inflight' = IF r.res.tag \in {"KeyTooLong", "ValueTooLong"}
                       THEN inflight
                       ELSE <<>>
        /\ UNCHANGED <<opens, openLen, openFaults>>

\* set(key, value) returns Ok
Set(key, value) ==
    /\ db = "open"
    /\ clock < MaxSets
    /\ clock' = clock + 1
    /\ CallSet(key, value, NoFault)
    /\ UNCHANGED faults

\* set with a key or a value too long for the length field
SetTooLong(key, value) ==
    /\ db = "open"
    /\ key = Oversized \/ value = Oversized
    /\ CallSet(key, value, NoFault)
    /\ UNCHANGED <<clock, faults>>

\* set whose write_all or sync_all fails
SetIoError(key, value, fault) ==
    /\ db = "open"
    /\ clock < MaxSets
    /\ clock' = clock + 1
    /\ faults < MaxFaults
    /\ faults' = faults + 1
    /\ CallSet(key, value, fault)

\* the faults a set call that returns meets: write_all fails before a byte
\* reached the file, or sync_all fails after the whole record did (a record
\* cut short is what CrashInSet leaves)
IoFaults == {WriteFault(0), SyncFault}

\* the engine goes away: the file is closed, the index is gone
Stop(call) ==
    /\ db' = "closed"
    /\ keydir' = EmptyKeyDir
    /\ offset' = W(0)
    /\ cursor' = W(0)
    /\ inflight' = call

\* the engine is dropped, or the process exits or dies, between two calls:
\* every set that returned has synced its record, so the file is the same
\* in all three cases
Drop ==
    /\ db = "open"
    /\ Stop(<<>>)
    /\ last' = Call("drop", <<>>, Ok(<<>>))
    /\ UNCHANGED <<disk, clock, opens, faults, hist, touched, openLen, openFaults>>

\* the process dies inside set(key, value), when the first n bytes of the
\* record have reached the file (n = the whole record: before the index
\* update)
CrashInSet(key, value, n) ==
    /\ db = "open"
    /\ clock < MaxSets
    /\ clock' = clock + 1
    /\ faults < MaxFaults
    /\ faults' = faults + 1
    /\ disk' = disk \o SubSeq(KeyValue_encode([timestamp |-> now_timestamp,
                                               key |-> key, value |-> value]), 1, n)
    /\ Stop(<<[key |-> key, value |-> value]>>)
    /\ last' = Call("crash", key, Ok(<<>>))
    /\ touched' = touched \cup {key}
    /\ UNCHANGED <<opens, hist, openLen, openFaults>>

Next ==
    \/ New
    \/ NewFromFile
    \/ \E key \in GetKeys : Get(key)
    \/ \E key \in Keys, value \in Values : Set(key, value)
    \/ \E call \in TooLongCalls : SetTooLong(call[1], call[2])
    \/ \E key \in Keys, value \in Values :
           \E fault \in IoFaults : SetIoError(key, value, fault)
    \/ Drop
    \/ \E key \in Keys, value \in Values :
           \E n \in 0..(HEADER_SIZE + Len(key) + Len(value)) : CrashInSet(key, value, n)

Spec == Init /\ [][Next]_vars

(***************************************************************************)
(* Vocabulary of the properties                                            *)
(***************************************************************************)
\* the bytes of the records of a sequence of acknowledged set calls
RECURSIVE EncodeAll(_)
EncodeAll(h) ==
    IF h = <<>> THEN <<>>
    ELSE KeyValue_encode(Head(h)) \o EncodeAll(Tail(h))

\* the acknowledged set calls on key
SetsOf(key) == {i \in 1..Len(hist) : hist[i].key = key}

\* what get(key) must return when the last acknowledged set wins
Expected(key) ==
    IF SetsOf(key) = {} THEN Ok(None)
    ELSE Ok(Some(hist[CHOOSE i \in SetsOf(key) : \A j \in SetsOf(key) : j <= i].value))

\* what get(key) returns in the current state
GetRes(key) == MyDB_get(disk, cursor, keydir, key).res

\* the engine was opened on an empty log and no set call of it has failed
FreshSession == db = "open" /\ openLen = 0 /\ faults = openFaults

(***************************************************************************)
(* C1  Last write wins on a store opened on an empty log: while every set  *)
(* call of the session succeeded, the log is the concatenation of the      *)
(* records of all of them, get(k) returns the value of the last set(k, _)  *)
(* (None for a key never set), and so did the last get call made.          *)
(***************************************************************************)
C1_LastWriteWins ==
    FreshSession =>
        /\ disk = EncodeAll(hist)
        /\ \A k \in GetKeys : GetRes(k) = Expected(k)
        /\ last.op = "get" => last.res = Expected(last.key)

\* set(k, v1), set(k, v2) with v1 # v2, then get(k) returned Some(v2), and
\* the log still holds both records
C1_Witness ==
    /\ FreshSession
    /\ Len(hist) = 2
    /\ hist[1].key = hist[2].key
    /\ hist[1].value # hist[2].value
    /\ last = Call("get", hist[2].key, Ok(Some(hist[2].value)))
    /\ disk = KeyValue_encode(hist[1]) \o KeyValue_encode(hist[2])

(***************************************************************************)
(* C2  Read your writes on a store opened on an existing non-empty,        *)
(* well-formed log: a get of the key of the last successful set of the     *)
(* session returns Some of the value set.                                  *)
(***************************************************************************)
C2_ReadYourWrites ==
    ( /\ db = "open"
      /\ faults = 0
      /\ openLen > 0
      /\ Len(disk) > openLen
      /\ last.op = "get"
      /\ last.key = hist[Len(hist)].key )
        => last.res = Ok(Some(hist[Len(hist)].value))

(***************************************************************************)
(* C3  Reload consistency: when every set call made on the file succeeded  *)
(* and the file is reopened, then before any further set, get(k) returns   *)
(* the value of the last set(k, _) for every key set and None for every    *)
(* other key, and so did the last get call made.                           *)
(***************************************************************************)
Reloaded == db = "open" /\ faults = 0 /\ opens >= 2 /\ Len(disk) = openLen

C3_ReloadConsistency ==
    Reloaded =>
        /\ \A k \in GetKeys : GetRes(k) = Expected(k)
        /\ last.op = "get" => last.res = Expected(last.key)

\* two sets of one key with different values on a store opened on the empty
\* log, a drop, a reopen, and a get of the key that returned the second value
C3_Witness ==
    /\ Reloaded
    /\ opens = 2
    /\ Len(hist) = 2
    /\ hist[1].key = hist[2].key
    /\ hist[1].value # hist[2].value
    /\ last = Call("get", hist[2].key, Ok(Some(hist[2].value)))

(***************************************************************************)
(* C4  Crash durability: when the process died inside a set call after at  *)
(* least one set call had returned Ok, the restart on the same file opens  *)
(* successfully, and get(k) of every key with an acknowledged set returns  *)
(* the value of the last acknowledged set(k, _), or the value of the set   *)
(* that was in flight when that one was on k.                              *)
(***************************************************************************)
\* the engine has just been restarted after a crash inside a set call
Restarted == inflight # <<>> /\ last.op = "open" /\ hist # <<>>

C4_CrashDurability ==
    Restarted =>
        /\ last.res.tag = "Ok"
        /\ \A k \in Keys :
               SetsOf(k) # {} =>
                   \/ GetRes(k) = Expected(k)
                   \/ /\ inflight[1].key = k
                      /\ GetRes(k) = Ok(Some(inflight[1].value))

(***************************************************************************)
(* C5  Missing key: a get of a key that no set call was ever given         *)
(* returns Ok(None).                                                       *)
(***************************************************************************)
C5_MissingKey ==
    (db = "open" /\ last.op = "get" /\ last.key \notin touched)
        => last.res = Ok(None)

(***************************************************************************)
(* C6  Index build on a truncated header: opening a log that ends with 1   *)
(* to 11 bytes after its last complete record fails with an I/O error.     *)
(***************************************************************************)
\* the bytes a crash inside a set call left after the complete records,
\* when that crash is the only fault the file has met
TornBytes == Len(disk) - Len(EncodeAll(hist))

\* the length of the record the interrupted set call was writing
TornRecordLen == HEADER_SIZE + Len(inflight[1].key) + Len(inflight[1].value)

\* the log is its complete records followed by the first TornBytes bytes of
\* one more, and it has just been opened
OpenedTorn == inflight # <<>> /\ faults = 1 /\ last.op = "open"

C6_TruncatedHeaderFails ==
    (OpenedTorn /\ TornBytes \in 1..(HEADER_SIZE - 1))
        => last.res.tag = "IoError"

(***************************************************************************)
(* C7  Index build on a truncated payload: opening a log whose last record *)
(* has its whole header but not all of its key and value bytes fails.      *)
(***************************************************************************)
C7_TruncatedPayloadFails ==
    (OpenedTorn /\ TornBytes >= HEADER_SIZE /\ TornBytes < TornRecordLen)
        => last.res.tag # "Ok"

(***************************************************************************)
(* C8  A corrupt record is an error, not absence: when the index holds an  *)
(* entry for k and the bytes the entry names cannot be read in full or do  *)
(* not decode as a record, get(k) returns an error; no get of a key the    *)
(* index holds returns Ok(None).                                           *)
(***************************************************************************)
\* the bytes [entry.offset, entry.offset + entry.size) lie within the log
Readable(entry) == WLe(entry.size, W(Available(disk, entry.offset)))

\* the bytes the entry names, when they lie within the log
EntryBytes(entry) ==
    SubSeq(disk, entry.offset.lo + 1, entry.offset.lo + entry.size.lo)

Corrupt(entry) ==
    ~Readable(entry) \/ KeyValue_decode(EntryBytes(entry)).tag # "Ok"

C8_CorruptIsError ==
    db = "open" =>
        /\ \A k \in DOMAIN keydir :
               /\ Corrupt(keydir[k]) => GetRes(k).tag \in {"IoError", "DecodeError"}
               /\ GetRes(k) # Ok(None)
        /\ (last.op = "get" /\ last.key \in DOMAIN keydir) => last.res # Ok(None)

\* a get of an indexed key whose bytes do not decode returned DecodeError
C8_Witness ==
    /\ db = "open"
    /\ last.op = "get"
    /\ last.key \in DOMAIN keydir
    /\ Readable(keydir[last.key])
    /\ Corrupt(keydir[last.key])
    /\ last.res = Err("DecodeError")

(***************************************************************************)
(* C9  A failed set leaves the index unmodified: every set call that       *)
(* returns KeyTooLong, ValueTooLong or an I/O error leaves the index and   *)
(* the tracked next-write offset as they were before the call.             *)
(***************************************************************************)
SetErrors == {"KeyTooLong", "ValueTooLong", "IoError"}

C9_FailedSetKeepsIndex ==
    [][(last'.op = "set" /\ last'.res.tag \in SetErrors)
           => (keydir' = keydir /\ offset' = offset)]_vars

\* a set call failed at sync_all, after its record reached the log, on an
\* engine whose index holds an entry: the index does not name the new record
C9_Witness ==
    /\ db = "open"
    /\ last.op = "set"
    /\ last.res = Err("IoError")
    /\ keydir # EmptyKeyDir
    /\ faults = openFaults + 1
    /\ openLen = 0
    /\ Len(disk) > offset.lo

(***************************************************************************)
(* C10  Append-only log: no step shortens or rewrites the log (the old log *)
(* is a prefix of the new one), and a set(k, v) that returns Ok extends it *)
(* by exactly the 12 + len(k) + len(v) bytes of its record, placed at the  *)
(* previous end of the log, wherever earlier gets left the file cursor.    *)
(***************************************************************************)
C10_AppendOnly ==
    [][/\ Len(disk') >= Len(disk)
       /\ SubSeq(disk', 1, Len(disk)) = disk
       /\ (last'.op = "set" /\ last'.res.tag = "Ok") =>
              LET set == hist'[Len(hist')]
              IN  /\ Len(disk') =
                         Len(disk) + HEADER_SIZE + Len(set.key) + Len(set.value)
                  /\ SubSeq(disk', Len(disk) + 1, Len(disk')) =
                         Header_encode([timestamp  |-> set.timestamp,
                                        key_size   |-> W(Len(set.key)),
                                        value_size |-> W(Len(set.value))])
                             \o set.key \o set.value]_vars

\* a second set returned Ok: the log holds both records, one after the other,
\* and the cursor is at the new end of the log
C10_Witness ==
    /\ db = "open"
    /\ last.op = "set"
    /\ last.res.tag = "Ok"
    /\ Len(hist) = 2
    /\ faults = 0
    /\ disk = EncodeAll(hist)
    /\ cursor = W(Len(disk))

(***************************************************************************)
(* The codec and the index build on their own.  A record is built, encoded *)
(* and its bytes decoded; or a buffer of any content is decoded as a       *)
(* record, or scanned as a log (new_from_file is given any file).  The     *)
(* record is kept in `hist`, the buffer in `disk`, the result in `last`.   *)
(***************************************************************************)
\* timestamps: 0, 1 700 000 000 and u32::MAX
CodecTimestamps == {W(0), Epoch, U32_MAX}

\* "", "a", "ab" and "é" (two bytes)
CodecStrings == {<<>>, <<97>>, <<97, 98>>, <<195, 169>>}

\* the arguments of KeyValue::new
CodecRecords ==
    {[timestamp |-> t, key |-> k, value |-> v] :
        t \in CodecTimestamps, k \in CodecStrings, v \in CodecStrings}

\* key_size and value_size of a header that no set call wrote: small sizes,
\* and the sizes around u32::MAX - 12
ForgedSizes ==
    {W(0), W(1), W(2),
     [hi |-> Base - 1, lo |-> Base - 13], [hi |-> Base - 1, lo |-> Base - 12], U32_MAX}

\* the bytes that follow such a header: "", "a", "ab", "abc", and the byte
\* 0xFF, which no UTF-8 string holds
Payloads == {<<>>, <<97>>, <<97, 98>>, <<97, 98, 99>>, <<255>>}

\* buffers with a whole header
ForgedBuffers ==
    {Header_encode([timestamp |-> Epoch, key_size |-> ks, value_size |-> vs]) \o p :
        ks \in ForgedSizes, vs \in ForgedSizes, p \in Payloads}

\* buffers of 0 to 11 bytes
ShortBuffers ==
    {SubSeq(Header_encode([timestamp |-> Epoch, key_size |-> W(1),
                           value_size |-> W(0)]), 1, n) : n \in 0..(HEADER_SIZE - 1)}

CodecInit ==
    /\ \/ /\ \E r \in CodecRecords : hist = <<r>>
          /\ disk = <<>>
       \/ /\ hist = <<>>
          /\ disk \in ForgedBuffers \cup ShortBuffers
    /\ cursor = W(0)
    /\ db = "closed"
    /\ keydir = EmptyKeyDir
    /\ offset = W(0)
    /\ clock = 0
    /\ opens = 0
    /\ faults = 0
    /\ last = Call("none", <<>>, Ok(<<>>))
    /\ touched = {}
    /\ openLen = 0
    /\ openFaults = 0
    /\ inflight = <<>>

\* KeyValue::new(timestamp, key, value), then encode
KeyValueEncode ==
    /\ hist # <<>>
    /\ last.op = "none"
    /\ LET new == KeyValue_new(hist[1].timestamp, hist[1].key, hist[1].value)
       IN  /\ new.tag = "Ok"
           /\ disk' = KeyValue_encode(new.val)
    /\ last' = Call("encode", hist[1].key, Ok(<<>>))
    /\ UNCHANGED <<cursor, engine, clock, opens, faults, ghost>>

\* a buffer is at hand: the encoding of the record, or the buffer given
BufferReady == last.op = "encode" \/ (last.op = "none" /\ hist = <<>>)

\* KeyValue::decode(buf)
KeyValueDecode ==
    /\ BufferReady
    /\ last' = Call("decode", <<>>, KeyValue_decode(disk))
    /\ UNCHANGED <<disk, cursor, engine, clock, opens, faults, ghost>>

\* KeyDir::load(file) on a file that holds the buffer
KeyDirLoad ==
    /\ BufferReady
    /\ LET r == KeyDir_load(disk)
       IN  /\ last' = Call("load", <<>>, [tag |-> r.tag, val |-> <<>>])
           /\ keydir' = IF r.tag = "Ok" THEN r.val.keydir ELSE EmptyKeyDir
           /\ cursor' = IF r.tag = "Ok" THEN r.val.cursor ELSE W(0)
    /\ UNCHANGED <<disk, db, offset, clock, opens, faults, ghost>>

CodecNext == KeyValueEncode \/ KeyValueDecode \/ KeyDirLoad

CodecSpec == CodecInit /\ [][CodecNext]_vars

(***************************************************************************)
(* C11  Record round trip: decoding the encoding of a record built from    *)
(* any timestamp and any UTF-8 key and value returns that record; the      *)
(* encoding is the timestamp, the key length and the value length, each as *)
(* four little-endian bytes, then the key bytes, then the value bytes, and *)
(* is 12 + key_size + value_size bytes long.                               *)
(***************************************************************************)
\* the four bytes b are the little-endian form of the u32 n
LittleEndian(b, n) ==
    /\ Len(b) = 4
    /\ \A i \in 1..4 : b[i] \in 0..255
    /\ n.lo = b[1] + 256 * b[2]
    /\ n.hi = b[3] + 256 * b[4]

C11_RecordRoundTrip ==
    (last.op = "decode" /\ hist # <<>>) =>
        LET r  == hist[1]
            ks == Len(r.key)
            vs == Len(r.value)
        IN  /\ last.res = Ok(r)
            /\ Len(disk) = 12 + ks + vs
            /\ LittleEndian(SubSeq(disk, 1, 4), r.timestamp)
            /\ LittleEndian(SubSeq(disk, 5, 8), W(ks))
            /\ LittleEndian(SubSeq(disk, 9, 12), W(vs))
            /\ SubSeq(disk, 13, 12 + ks) = r.key
            /\ SubSeq(disk, 13 + ks, 12 + ks + vs) = r.value

\* the record (u32::MAX, "é", "ab") came back from the decoding of its 16 bytes
C11_Witness ==
    /\ last.op = "decode"
    /\ hist = <<[timestamp |-> U32_MAX, key |-> <<195, 169>>, value |-> <<97, 98>>]>>
    /\ last.res = Ok(hist[1])
    /\ Len(disk) = 16

(***************************************************************************)
(* C12  Record size rejection: KeyValue::decode returns a decode error for *)
(* every buffer shorter than 12 bytes and for every buffer whose length is *)
(* not 12 + key_size + value_size of its own header, shorter or longer; a  *)
(* record it returns has exactly the length of the buffer.                 *)
(***************************************************************************)
\* the u32 at bytes i .. i + 3 of b, little-endian
FieldAtOf(b, i) == [hi |-> b[i + 2] + 256 * b[i + 3], lo |-> b[i] + 256 * b[i + 1]]

\* the u32 at bytes i .. i + 3 of the buffer
FieldAt(i) == FieldAtOf(disk, i)

\* 12 + key_size + value_size of the header the buffer starts with
HeaderTotal == WAdd(W(12), WAdd(FieldAt(5), FieldAt(9)))

C12_RecordSizeRejection ==
    last.op = "decode" =>
        /\ Len(disk) < 12 => last.res = Err("DecodeError")
        /\ (Len(disk) >= 12 /\ W(Len(disk)) # HeaderTotal)
               => last.res = Err("DecodeError")
        /\ last.res.tag = "Ok" =>
               Len(disk) = 12 + Len(last.res.val.key) + Len(last.res.val.value)

\* a 15-byte buffer whose header says key_size 1 and value_size 1, one byte
\* longer than its record, was rejected
C12_Witness ==
    /\ last.op = "decode"
    /\ Len(disk) = 15
    /\ HeaderTotal = W(14)
    /\ last.res = Err("DecodeError")

(***************************************************************************)
(* C13  Too-long rejection: a set call whose key is longer than u32::MAX   *)
(* bytes returns KeyTooLong, whatever its value; a set call whose value is *)
(* longer than u32::MAX bytes and whose key is not returns ValueTooLong;   *)
(* neither appends a byte to the log.                                      *)
(***************************************************************************)
C13_TooLongRejection ==
    [][\A call \in TooLongCalls :
           SetTooLong(call[1], call[2]) =>
               /\ last'.res = IF call[1] = Oversized
                              THEN Err("KeyTooLong")
                              ELSE Err("ValueTooLong")
               /\ disk' = disk]_vars

\* set("", v) with v too long returned ValueTooLong on a store whose log
\* holds one record
C13_Witness ==
    /\ db = "open"
    /\ last = Call("set", <<>>, Err("ValueTooLong"))
    /\ Len(hist) = 1
    /\ disk = EncodeAll(hist)
    /\ disk # <<>>

(***************************************************************************)
(* C14  Empty key and value: a set("", "") that returns Ok has appended    *)
(* the 12 bytes of a header with key_size 0 and value_size 0 and nothing   *)
(* else, a get("") that follows returns Some(""), and the entries of the   *)
(* other keys are as they were before the call.                            *)
(***************************************************************************)
C14_EmptyKeyValue ==
    [][( /\ last'.op = "set"
         /\ last'.res.tag = "Ok"
         /\ last'.key = <<>>
         /\ hist' # hist
         /\ hist'[Len(hist')].value = <<>> )
       => /\ disk' = disk \o Header_encode([timestamp  |-> hist'[Len(hist')].timestamp,
                                           key_size   |-> W(0),
                                           value_size |-> W(0)])
          /\ Len(disk') = Len(disk) + 12
          /\ MyDB_get(disk', cursor', keydir', <<>>).res = Ok(Some(<<>>))
          /\ \A k \in DOMAIN keydir \ {<<>>} :
                 k \in DOMAIN keydir' /\ keydir'[k] = keydir[k]]_vars

(***************************************************************************)
(* C15  Tracked offset: right after an open, on an empty or a non-empty    *)
(* log, and right after every set that returned Ok, the engine's tracked   *)
(* next-write offset is the length of the log.                             *)
(***************************************************************************)
C15_TrackedOffset ==
    ( /\ db = "open"
      /\ \/ last.op = "open"
         \/ last.op = "set" /\ last.res.tag = "Ok" )
        => offset = W(Len(disk))

(***************************************************************************)
(* C16  get changes nothing but the file cursor: a get call, whatever it   *)
(* returns, leaves the log, the index and the tracked offset as they were; *)
(* and the cursor it moved decides nothing: every get and every set made   *)
(* after it returns the same result, and leaves the same log, index and    *)
(* offset, as the same call made before it.                                *)
(***************************************************************************)
\* what a set call returns and leaves behind, the file cursor aside
SetOutcome(bytes, pos, index, off, key, value, fault) ==
    LET r == MyDB_set(bytes, pos, index, off, key, value, now_timestamp, fault)
    IN  <<r.res, r.bytes, r.keydir, r.offset>>

C16_GetFrame ==
    [][last'.op = "get" =>
           /\ disk' = disk
           /\ keydir' = keydir
           /\ offset' = offset
           /\ cursor' # cursor =>
                  /\ \A k \in GetKeys :
                         MyDB_get(disk', cursor', keydir', k).res
                             = MyDB_get(disk, cursor, keydir, k).res
                  /\ \A k \in Keys, v \in Values, fault \in {NoFault} \cup IoFaults :
                         SetOutcome(disk', cursor', keydir', offset', k, v, fault)
                             = SetOutcome(disk, cursor, keydir, offset, k, v, fault)]_vars

\* a get returned a value and left the cursor before the end of the log
C16_Witness ==
    /\ db = "open"
    /\ last.op = "get"
    /\ last.res.tag = "Ok"
    /\ last.res.val # None
    /\ WLt(cursor, W(Len(disk)))

(***************************************************************************)
(* C17  Incremental index equals scanned index: on a store opened on an    *)
(* empty log, right after every set that returned Ok, KeyDir::load of the  *)
(* log succeeds and builds the index the engine holds: the same keys, and  *)
(* for each key the same timestamp, size and offset.                       *)
(***************************************************************************)
C17_IncrementalIndex ==
    ( /\ db = "open"
      /\ openLen = 0
      /\ last.op = "set"
      /\ last.res.tag = "Ok" )
        => /\ KeyDir_load(disk).tag = "Ok"
           /\ KeyDir_load(disk).val.keydir = keydir

(***************************************************************************)
(* C18  Consistency window.  A record is `landed` when its bytes are whole *)
(* in the log and its set call did not return Ok: the call failed at       *)
(* sync_all, or the process died before the index update.                  *)
(*  - after a reopen, the key of a landed record is in the index and its   *)
(*    get returns the value of the record (when no later record of the     *)
(*    log holds the key);                                                  *)
(*  - in the engine that goes on running after the failed call, every      *)
(*    later set of another key that returned Ok is read back by get with   *)
(*    its own value (when no later record of the log holds that key).      *)
(***************************************************************************)
\* the complete records the log starts with
RECURSIVE LogRecords(_)
LogRecords(bytes) ==
    IF Len(bytes) < 12 THEN <<>>
    ELSE LET ks == FieldAtOf(bytes, 5)
             vs == FieldAtOf(bytes, 9)
             n  == 12 + ks.lo + vs.lo
         IN  IF ks.hi # 0 \/ vs.hi # 0 \/ n > Len(bytes) THEN <<>>
             ELSE LET r == KeyValue_decode(SubSeq(bytes, 1, n))
                  IN  IF r.tag # "Ok" THEN <<>>
                      ELSE <<r.val>> \o LogRecords(SubSeq(bytes, n + 1, Len(bytes)))

\* the log is a sequence of complete records
WholeLog == EncodeAll(LogRecords(disk)) = disk

\* no set call that returned Ok wrote the record
Landed(r) == \A j \in 1..Len(hist) : hist[j] # r

\* the i-th record of the log is the last one of its key
LastOfKey(recs, i) == \A j \in (i + 1)..Len(recs) : recs[j].key # recs[i].key

\* the position in the log of the i-th record
StartOf(recs, i) == Len(EncodeAll(SubSeq(recs, 1, i - 1)))

WindowHeals ==
    LET recs == LogRecords(disk)
    IN  \A i \in 1..Len(recs) :
            ( /\ Landed(recs[i])
              /\ StartOf(recs, i + 1) <= openLen
              /\ LastOfKey(recs, i) )
                => /\ recs[i].key \in DOMAIN keydir
                   /\ GetRes(recs[i].key) = Ok(Some(recs[i].value))

StillReadable ==
    LET recs == LogRecords(disk)
    IN  \A i \in 1..Len(recs) :
            ( /\ Landed(recs[i])
              /\ StartOf(recs, i) >= openLen )
                => \A j \in (i + 1)..Len(recs) :
                       ( /\ ~Landed(recs[j])
                         /\ recs[j].key # recs[i].key
                         /\ LastOfKey(recs, j) )
                           => GetRes(recs[j].key) = Ok(Some(recs[j].value))

C18_ConsistencyWindow ==
    (db = "open" /\ WholeLog) => (WindowHeals /\ StillReadable)

(***************************************************************************)
(* C19  Index entry size never overflows: KeyDir::load does not panic on a *)
(* header whose key it can read, and every entry of the index it returns   *)
(* has the size 12 + key_size + value_size of the header at its offset, a  *)
(* number that fits in the 32 bits of the entry's size field.              *)
(***************************************************************************)
C19_EntrySizeFits ==
    last.op = "load" =>
        /\ last.res.tag # "Panic"
        /\ last.res.tag = "Ok" =>
               \A k \in DOMAIN keydir :
                   LET at == keydir[k].offset.lo
                   IN  /\ FitsU32(keydir[k].size)
                       /\ keydir[k].size =
                              WAdd(W(12), WAdd(FieldAtOf(disk, at + 5),
                                               FieldAtOf(disk, at + 9)))

====
